---- MODULE Spec2Model ----
(***************************************************************************)
(* The ReAct agent of langgraph-react-agent: the two-node agent graph      *)
(* (agent.py), its tools (tools.py) and the command-line session that      *)
(* threads a ConversationHistory through run_single_query / run_streaming  *)
(* (main.py).                                                              *)
(*                                                                         *)
(* Strings that the program inspects or builds (tool arguments, tool       *)
(* results, message contents) are sequences of one-character strings, so   *)
(* that membership tests, substring search and formatting are computed.    *)
(***************************************************************************)
EXTENDS Integers, Sequences, FiniteSets, TLC

\* ------------------------------------------------------------------ bounds
\* Queries asked in one session.
MaxQueries == 2
\* Decision Steps (model invocations) explored within one conversation, that
\* is from one clearing of the history to the next.
MaxIters == 3
\* Tool calls the model may request in one Assistant turn.
MaxCalls == 2
\* Tool calls requested in one session, over all turns.
MaxToolCalls == 2

\* ------------------------------------------------------------- text helpers
\* "k in s" of Python for strings: k occurs in s as a contiguous substring.
Contains(s, k) ==
  \E i \in 0..(Len(s) - Len(k)) : SubSeq(s, i + 1, i + Len(k)) = k

\* ----------------------------------------------------------------- messages
\* langchain_core.messages: HumanMessage, AIMessage, ToolMessage.  Every
\* message is a record of the same shape; fields a variant lacks are empty.
HumanMessage(c) ==
  [type |-> "human", content |-> c, tool_calls |-> <<>>, tool_call_id |-> 0]
AIMessage(c, calls) ==
  [type |-> "ai", content |-> c, tool_calls |-> calls, tool_call_id |-> 0]
ToolMessage(c, id) ==
  [type |-> "tool", content |-> c, tool_calls |-> <<>>, tool_call_id |-> id]
ToolCall(id, name, args) == [id |-> id, name |-> name, args |-> args]

\* What a call of a tool function does: it returns a string, or it raises.
Return(text) == [raised |-> FALSE, value |-> text]
Raise(exc) == [raised |-> TRUE, value |-> <<exc>>]

\* ------------------------------------------------------------ tools.search_web
UpperAlpha == <<"A","B","C","D","E","F","G","H","I","J","K","L","M",
                "N","O","P","Q","R","S","T","U","V","W","X","Y","Z">>
LowerAlpha == <<"a","b","c","d","e","f","g","h","i","j","k","l","m",
                "n","o","p","q","r","s","t","u","v","w","x","y","z">>

\* str.lower(), one character at a time.
LowerChar(c) ==
  IF \E i \in 1..26 : UpperAlpha[i] = c
  THEN LowerAlpha[CHOOSE i \in 1..26 : UpperAlpha[i] = c]
  ELSE c
Lower(s) == [i \in 1..Len(s) |-> LowerChar(s[i])]

\* mock_results, in the dict's insertion order: <<keyword, canned text>>.
mock_results ==
  << << <<"l","a","n","g","g","r","a","p","h">>,
        "LangGraph is a library for building stateful, multi-actor applications with LLMs." >>,
     << <<"r","e","a","c","t"," ","a","g","e","n","t">>,
        "ReAct (Reasoning and Acting) is a paradigm that combines reasoning and action in LLM agents." >>,
     << <<"g","e","m","i","n","i"," ","a","p","i">>,
        "Google Gemini API provides access to Google's multimodal AI models." >> >>

NoResultsText == "No specific results found. This is a mock search tool."

\* search_web looking for the keywords in the query as typed, without lower().
search_web_case_sensitive(query) ==
  LET hits == {k \in 1..Len(mock_results) : Contains(query, mock_results[k][1])}
      first == CHOOSE k \in hits : \A j \in hits : k <= j
  IN  Return(<<"Search results for '">> \o query \o <<"': ">>
               \o (IF hits # {} THEN <<mock_results[first][2]>> ELSE <<NoResultsText>>))

\* search_web(query): the canned text of the first keyword, in mapping order,
\* that occurs in query.lower(); the fallback text when none does.
search_web(query) ==
  LET query_lower == Lower(query)
      hits == {k \in 1..Len(mock_results) : Contains(query_lower, mock_results[k][1])}
      first == CHOOSE k \in hits : \A j \in hits : k <= j
  IN  Return(<<"Search results for '">> \o query \o <<"': ">>
               \o (IF hits # {} THEN <<mock_results[first][2]>> ELSE <<NoResultsText>>))

\* ------------------------------------------------------------ tools.calculator
Digits == <<"0","1","2","3","4","5","6","7","8","9">>
IsDigit(c) == \E i \in 1..10 : Digits[i] = c
DigitVal(c) == (CHOOSE i \in 1..10 : Digits[i] = c) - 1

\* allowed_chars = set("0123456789+-*/(). ")
allowed_chars == {Digits[i] : i \in 1..10} \cup {"+", "-", "*", "/", "(", ")", ".", " "}

Abs(x) == IF x < 0 THEN -x ELSE x
RECURSIVE Gcd(_, _)
Gcd(a, b) == IF b = 0 THEN a ELSE Gcd(b, a % b)
RECURSIVE IsPow2(_)
IsPow2(d) == d = 1 \/ (d > 1 /\ d % 2 = 0 /\ IsPow2(d \div 2))
RECURSIVE IPow(_, _)
IPow(a, e) == IF e <= 0 THEN 1 ELSE a * IPow(a, e - 1)

\* Values of the evaluated expression.  k is the Python type of the value
\* ("int", "float", "tuple", "Ellipsis"), the exception its evaluation raised
\* ("ZeroDivisionError", "TypeError"), or:
\*   "untracked"  a float whose text this model does not compute (it is not a
\*                small dyadic rational, or it may be a negative zero);
\*   "unmodelled" an operation whose divisor or exponent is untracked, so that
\*                whether it raises is not computed.
\* An int is n (d = 1); a float is the rational n/d in lowest terms, d a power
\* of two, which binary floating point holds exactly.
MaxFloatDen == 2^13
IntV(n) == [k |-> "int", n |-> n, d |-> 1]
Other(kind) == [k |-> kind, n |-> 0, d |-> 1]
FloatV(n, d) ==
  LET g  == Gcd(Abs(n), d)
      nn == n \div g
      dd == d \div g
  IN  IF n = 0 THEN [k |-> "float", n |-> 0, d |-> 1]
      ELSE IF dd = 1 \/ (IsPow2(dd) /\ dd <= MaxFloatDen /\ Abs(nn) < 100 * dd)
      THEN [k |-> "float", n |-> nn, d |-> dd]
      ELSE Other("untracked")

IsErr(v) == v.k \in {"ZeroDivisionError", "TypeError"}
IsNum(v) == v.k \in {"int", "float"}
\* The value is an integer (an int, or a float without fraction).
IsWhole(v) == IsNum(v) /\ v.d = 1

\* -x and +x
Neg(v) ==
  CASE IsErr(v) \/ v.k \in {"untracked", "unmodelled"} -> v
    [] v.k \in {"tuple", "Ellipsis"} -> Other("TypeError")
    [] v.k = "int" -> IntV(-v.n)
    [] OTHER -> IF v.n = 0 THEN Other("untracked") ELSE [v EXCEPT !.n = -v.n]
Pos(v) == IF v.k \in {"tuple", "Ellipsis"} THEN Other("TypeError") ELSE v

\* a op b for numbers a, b (ints and tracked floats).
NumOp(op, a, b) ==
  LET isF == a.k = "float" \/ b.k = "float"
      mk(n, d) == IF isF THEN FloatV(n, d) ELSE IntV(n \div d)
      negz == isF /\ (a.n < 0 \/ b.n < 0)
  IN  CASE op = "+" -> mk(a.n * b.d + b.n * a.d, a.d * b.d)
        [] op = "-" -> mk(a.n * b.d - b.n * a.d, a.d * b.d)
        [] op = "*" -> IF a.n * b.n = 0 /\ negz THEN Other("untracked")
                       ELSE mk(a.n * b.n, a.d * b.d)
        [] op = "/" -> IF b.n = 0 THEN Other("ZeroDivisionError")
                       ELSE IF a.n = 0 /\ b.n < 0 THEN Other("untracked")
                       ELSE IF b.n < 0 THEN FloatV(-(a.n * b.d), a.d * (-b.n))
                       ELSE FloatV(a.n * b.d, a.d * b.n)
        [] op = "//" -> IF b.n = 0 THEN Other("ZeroDivisionError")
                        ELSE LET num == IF b.n < 0 THEN -(a.n * b.d) ELSE a.n * b.d
                                 den == a.d * Abs(b.n)
                                 q   == num \div den
                             IN  IF q = 0 /\ negz THEN Other("untracked")
                                 ELSE IF isF THEN FloatV(q, 1) ELSE IntV(q)
        [] op = "**" ->
             IF ~IsWhole(b)
             THEN IF a.n = 0 /\ b.n < 0 THEN Other("ZeroDivisionError")
                  ELSE Other("untracked")
             ELSE IF b.n >= 0
             THEN IF isF THEN FloatV(IPow(a.n, b.n), IPow(a.d, b.n))
                  ELSE IntV(IPow(a.n, b.n))
             ELSE IF a.n = 0 THEN Other("ZeroDivisionError")
             ELSE LET num == IPow(a.d, -b.n)
                      den == IPow(a.n, -b.n)
                  IN  IF den < 0 THEN FloatV(-num, -den) ELSE FloatV(num, den)

\* a op b as Python evaluates it: a first, then b, then the operation.
BinOp(op, a, b) ==
  CASE IsErr(a) \/ a.k = "unmodelled" -> a
    [] IsErr(b) \/ b.k = "unmodelled" -> b
    [] a.k = "Ellipsis" \/ b.k = "Ellipsis" -> Other("TypeError")
    [] a.k = "tuple" /\ b.k = "tuple" ->
         IF op = "+" THEN Other("tuple") ELSE Other("TypeError")
    [] a.k = "tuple" \/ b.k = "tuple" ->
         IF op = "*" /\ (a.k = "int" \/ b.k = "int")
         THEN Other("tuple") ELSE Other("TypeError")
    [] b.k = "untracked" ->
         IF op \in {"/", "//", "**"} THEN Other("unmodelled") ELSE Other("untracked")
    [] a.k = "untracked" ->
         IF op \in {"/", "//"} /\ b.n = 0 THEN Other("ZeroDivisionError")
         ELSE IF op = "**" /\ b.n < 0 THEN Other("unmodelled")
         ELSE Other("untracked")
    [] OTHER -> NumOp(op, a, b)

\* --- eval(expression): the Python expression grammar over allowed_chars.
At(s, p) == IF 1 <= p /\ p <= Len(s) THEN s[p] ELSE ""
RECURSIVE RunEnd(_, _)
RunEnd(s, p) == IF p <= Len(s) /\ IsDigit(s[p]) THEN RunEnd(s, p + 1) ELSE p
RECURSIVE NumOf(_, _, _)
\* The number written by the digits s[a..b-1].
NumOf(s, a, b) == IF b <= a THEN 0 ELSE 10 * NumOf(s, a, b - 1) + DigitVal(s[b - 1])

\* A token: t is "num" (with its value v), an operator or bracket symbol,
\* "..." or "bad" (no token starts here: a SyntaxError).
Tok(t, v) == [t |-> t, v |-> v]
Sym(t) == Tok(t, Other(t))

\* NUMBER at p: digits, digits "." [digits], or "." digits; e is its end.  A
\* decimal integer with a leading zero is a SyntaxError unless it is all zeros.
Number(s, p) ==
  LET e1     == RunEnd(s, p)
      hasDot == At(s, e1) = "."
      e2     == IF hasDot THEN RunEnd(s, e1 + 1) ELSE e1
      ip     == NumOf(s, p, e1)
      scale  == IPow(10, e2 - e1 - 1)
  IN  IF ~hasDot
      THEN [e |-> e1, tok |-> IF s[p] = "0" /\ ip # 0 THEN Sym("bad")
                              ELSE Tok("num", IntV(ip))]
      ELSE [e |-> e2, tok |-> Tok("num", FloatV(ip * scale + NumOf(s, e1 + 1, e2), scale))]

\* The tokens of s from position p on; blanks separate tokens.
RECURSIVE Tokens(_, _)
Tokens(s, p) ==
  LET c == At(s, p)
  IN  IF p > Len(s) THEN <<>>
      ELSE IF c = " " THEN Tokens(s, p + 1)
      ELSE IF IsDigit(c) \/ (c = "." /\ IsDigit(At(s, p + 1)))
      THEN <<Number(s, p).tok>> \o Tokens(s, Number(s, p).e)
      ELSE IF c = "."
      THEN IF At(s, p + 1) = "." /\ At(s, p + 2) = "."
           THEN <<Sym("...")>> \o Tokens(s, p + 3)
           ELSE <<Sym("bad")>>
      ELSE IF c \in {"*", "/"} /\ At(s, p + 1) = c
      THEN <<Sym(IF c = "*" THEN "**" ELSE "//")>> \o Tokens(s, p + 2)
      ELSE <<Sym(c)>> \o Tokens(s, p + 1)

\* The nesting depth of the brackets of toks[lo..i-1].
Depth(toks, lo, i) ==
  Cardinality({j \in lo..(i - 1) : toks[j].t = "("})
    - Cardinality({j \in lo..(i - 1) : toks[j].t = ")"})
Balanced(toks, lo, hi) ==
  /\ \A i \in lo..hi : Depth(toks, lo, i) >= 0
  /\ Depth(toks, lo, hi + 1) = 0
SetMax(S) == CHOOSE x \in S : \A y \in S : y <= x
SetMin(S) == CHOOSE x \in S : \A y \in S : x <= y

\* The expression is compiled before it is evaluated: a SyntaxError anywhere
\* wins over what evaluation would raise.
Comb(op, a, b) ==
  IF a.k = "SyntaxError" \/ b.k = "SyntaxError" THEN Other("SyntaxError")
  ELSE BinOp(op, a, b)
Unary(op, v) ==
  IF v.k = "SyntaxError" THEN v ELSE IF op = "-" THEN Neg(v) ELSE Pos(v)
\* A call of a value, which is never callable: the callee and the argument are
\* evaluated, then TypeError.
Call(f, arg) ==
  CASE f.k = "SyntaxError" \/ arg.k = "SyntaxError" -> Other("SyntaxError")
    [] IsErr(f) \/ f.k = "unmodelled" -> f
    [] IsErr(arg) \/ arg.k = "unmodelled" -> arg
    [] OTHER -> Other("TypeError")

\* The value of the tokens toks[lo..hi] as one expression:
\*   sum:     term (("+" | "-") term)*              left to right
\*   term:    factor (("*" | "/" | "//") factor)*   left to right
\*   factor:  ("+" | "-") factor | power
\*   power:   primary ["**" factor]
\*   primary: atom ("(" [["*" | "**"] sum] ")")*
\*   atom:    NUMBER | "(" sum ")" | "(" ")" | "..."
\* An operator is binary when it follows the end of an operand.
RECURSIVE Eval(_, _, _)
Eval(toks, lo, hi) ==
  LET top(i)   == Depth(toks, lo, i) = 0
      after(i) == toks[i - 1].t \in {"num", ")", "..."}
      bin(ops) == {i \in (lo + 1)..hi : toks[i].t \in ops /\ top(i) /\ after(i)}
      sums     == bin({"+", "-"})
      terms    == bin({"*", "/", "//"})
      pows     == {i \in lo..hi : toks[i].t = "**" /\ top(i)}
      open     == SetMax({j \in lo..hi : toks[j].t = "(" /\ top(j)})
      split(i) == Comb(toks[i].t, Eval(toks, lo, i - 1), Eval(toks, i + 1, hi))
  IN  IF lo > hi \/ ~Balanced(toks, lo, hi) THEN Other("SyntaxError")
      ELSE IF sums # {} THEN split(SetMax(sums))
      ELSE IF terms # {} THEN split(SetMax(terms))
      ELSE IF toks[lo].t \in {"+", "-"} THEN Unary(toks[lo].t, Eval(toks, lo + 1, hi))
      ELSE IF pows # {} THEN split(SetMin(pows))
      ELSE IF lo = hi
      THEN IF toks[lo].t = "num" THEN toks[lo].v
           ELSE IF toks[lo].t = "..." THEN Other("Ellipsis")
           ELSE Other("SyntaxError")
      ELSE IF toks[hi].t # ")" THEN Other("SyntaxError")
      ELSE IF open = lo
      THEN IF hi = lo + 1 THEN Other("tuple") ELSE Eval(toks, lo + 1, hi - 1)
      ELSE IF open + 1 = hi THEN Call(Eval(toks, lo, open - 1), IntV(0))
      ELSE Call(Eval(toks, lo, open - 1),
                Eval(toks, IF toks[open + 1].t \in {"*", "**"} THEN open + 2 ELSE open + 1,
                     hi - 1))

\* eval(expression)
PyEval(s) ==
  LET toks == Tokens(s, 1)
  IN  IF \E i \in 1..Len(toks) : toks[i].t = "bad" THEN Other("SyntaxError")
      ELSE Eval(toks, 1, Len(toks))

\* str(n) for an int.
RECURSIVE NatStr(_)
NatStr(n) == IF n < 10 THEN <<Digits[n + 1]>> ELSE NatStr(n \div 10) \o <<Digits[(n % 10) + 1]>>
IntStr(n) == IF n < 0 THEN <<"-">> \o NatStr(-n) ELSE NatStr(n)
\* The decimal digits of the fraction r/d, 0 <= r < d, d a power of two.
RECURSIVE FracStr(_, _)
FracStr(r, d) ==
  IF r = 0 THEN <<>> ELSE <<Digits[((10 * r) \div d) + 1]>> \o FracStr((10 * r) % d, d)
\* str(x) for a tracked float: the exact decimal expansion, "2.0" for 2.
FloatStr(n, d) ==
  LET a == Abs(n)
  IN  (IF n < 0 THEN <<"-">> ELSE <<>>) \o NatStr(a \div d) \o <<".">>
        \o (IF a % d = 0 THEN <<"0">> ELSE FracStr(a % d, d))
\* str(result) in the f-string.
ValueStr(v) ==
  CASE v.k = "int" -> IntStr(v.n)
    [] v.k = "float" -> FloatStr(v.n, v.d)
    [] v.k = "tuple" -> <<"(", ")">>
    [] v.k = "Ellipsis" -> <<"E", "l", "l", "i", "p", "s", "i", "s">>
    [] OTHER -> <<"<float>">>

InvalidCharsText ==
  "Error: Invalid characters in expression. Only numbers and basic operators (+, -, *, /, parentheses) are allowed."

\* The body of calculator's try block: the allow-list check, eval and the
\* f-string; it raises what eval raises.
calculator_try(expression) ==
  IF \E i \in 1..Len(expression) : expression[i] \notin allowed_chars
  THEN Return(<<InvalidCharsText>>)
  ELSE LET result == PyEval(expression)
       IN  CASE result.k \in {"ZeroDivisionError", "SyntaxError", "TypeError"} ->
                  Raise(result.k)
             [] result.k = "unmodelled" -> Return(<<"<unmodelled>">>)
             [] OTHER -> Return(<<"Result: ">> \o expression \o <<" = ">> \o ValueStr(result))

\* calculator without its except clauses.
calculator_unguarded(expression) == calculator_try(expression)

\* calculator(expression): the try block under "except ZeroDivisionError" and
\* "except Exception as e".  The text of e is written as the exception's type.
calculator(expression) ==
  LET r == calculator_try(expression)
  IN  IF ~r.raised THEN r
      ELSE IF r.value = <<"ZeroDivisionError">> THEN Return(<<"Error: Division by zero">>)
      ELSE Return(<<"Error: Could not evaluate expression. ">> \o r.value)

\* ------------------------------------------------------------ the agent graph
\* agent.tools = [search_web, calculator]; ToolNode calls the tool a call names
\* on the call's argument ...
invoke_tool(call) ==
  IF call.name = "calculator" THEN calculator(call.args) ELSE search_web(call.args)
\* ... and wraps the returned string in a ToolMessage that carries the call's id.
tool_message(call, text) == ToolMessage(text, call.id)

\* graph.set_entry_point("agent") and graph.add_edge("tools", "agent")
entry_point == "agent"
\* The edge out of "tools" leading to END instead.
tools_edge_to_end == "END"
tools_edge == "agent"

\* should_continue testing the message's content instead of its tool calls.
should_continue_on_content(msgs) ==
  LET last_message == msgs[Len(msgs)]
  IN  IF last_message.type = "ai" /\ last_message.content = <<>>
      THEN "tools" ELSE "END"

\* should_continue(state): "tools" if the last message is an AIMessage with
\* tool calls, END otherwise.
should_continue(msgs) ==
  LET last_message == msgs[Len(msgs)]
  IN  IF last_message.type = "ai" /\ last_message.tool_calls # <<>>
      THEN "tools" ELSE "END"

\* add_messages, the reducer of AgentState.messages: the update is appended
\* (message ids are fresh, so no message of the state is replaced).
add_messages(left, right) == left \o right

\* What the language model may answer.  The model is an external collaborator:
\* every content/tool_calls combination is possible, with fresh call ids.
Contents == {<<>>, <<"answer">>}
ToolRequests ==
  { <<"calculator", <<"1", "0", " ", "/", " ", "0">> >>,
    <<"search_web", <<"L", "a", "n", "g", "G", "r", "a", "p", "h">> >> }
CallSeqs(id0) ==
  UNION { { [i \in 1..n |-> ToolCall(id0 + i - 1, rq[i][1], rq[i][2])] :
              rq \in [1..n -> ToolRequests] } : n \in 0..MaxCalls }
Responses(id0) == { AIMessage(c, calls) : c \in Contents, calls \in CallSeqs(id0) }

\* The user's questions: the k-th question of a session is the text "qk".
QueryText(k) == <<"q", Digits[k + 1]>>

VARIABLES
  api_key,        \* os.getenv("GOOGLE_API_KEY") is set
  mode,           \* "query" (-q), "interactive" or "demo" (--demo)
  streaming,      \* run_streaming is used: args.stream, the /stream toggle, run_demo
  pc,             \* "start", "prompt", "running", "demo_clear",
                  \* "crashed", "exited"
  error,          \* the exception that ended the program, "" if none
  history,        \* ConversationHistory.messages
  messages,       \* AgentState.messages of the running graph
  node,           \* the graph's next node: "agent", "tools", "END"; "none" when no run
  outputs,        \* ToolNode: call index -> the ToolMessage of a finished call
  new_messages,   \* run_streaming's local list
  final_content,  \* run_streaming's local string
  returned,       \* what the last run_single_query / run_streaming returned
  next_id,        \* the next fresh tool-call id
  iters,          \* Decision Steps of the current query
  queries,        \* queries asked so far
  hist_before,    \* history.messages when the current query was entered
  llm_input,      \* the message list given to the last model invocation
  session_log,    \* every message produced since the history was last cleared
  cleared_upto,   \* the number of queries asked when the history was last cleared
  tool_input,     \* the argument of a tool function called on its own
  tool_called,    \* that tool function's name, "" before the call
  tool_result     \* what the call returned or raised

vars == <<api_key, mode, streaming, pc, error, history,
          messages, node, outputs, new_messages, final_content, returned,
          next_id, iters, queries, hist_before, llm_input, session_log,
          cleared_upto,
          tool_input, tool_called, tool_result>>

cli    == <<api_key, mode, streaming>>
graph  == <<messages, node, outputs, next_id, iters, llm_input>>
locals == <<new_messages, final_content>>
tool_io == <<tool_input, tool_called, tool_result>>

NoOutputs == [i \in {} |-> 0]

Init ==
  /\ api_key \in BOOLEAN
  /\ mode \in {"query", "interactive", "demo"}
  /\ streaming \in BOOLEAN
  /\ mode = "demo" => streaming
  /\ cleared_upto = 0
  /\ pc = "start"
  /\ error = ""
  /\ history = <<>>
  /\ messages = <<>>
  /\ node = "none"
  /\ outputs = NoOutputs
  /\ new_messages = <<>>
  /\ final_content = <<>>
  /\ returned = <<>>
  /\ next_id = 1
  /\ iters = 0
  /\ queries = 0
  /\ hist_before = <<>>
  /\ llm_input = <<>>
  /\ session_log = <<>>
  /\ tool_input = <<>>
  /\ tool_called = ""
  /\ tool_result = Return(<<>>)

\* ------------------------------------------------------- ConversationHistory
\* add_human_message starting the list over instead of appending to it.
add_human_message_reset(msgs, content) == <<HumanMessage(content)>>
add_human_message(msgs, content) == Append(msgs, HumanMessage(content))
\* add_ai_messages assigning the list instead of extending it.
add_ai_messages_assign(msgs, new) == new
add_ai_messages(msgs, new) == msgs \o new
\* clear leaving the list as it is.
clear_noop(msgs) == msgs
\* clear: self.messages = [] (and start_time, which only an export shows, is
\* set anew)
clear(msgs) == <<>>

\* ------------------------------------------------------- main.run_interactive
\* str.strip() of a line: the blanks at both ends removed.
RECURSIVE LStrip(_)
LStrip(s) == IF s # <<>> /\ Head(s) = " " THEN LStrip(Tail(s)) ELSE s
RECURSIVE RStrip(_)
RStrip(s) == IF s # <<>> /\ s[Len(s)] = " " THEN RStrip(SubSeq(s, 1, Len(s) - 1)) ELSE s
Strip(s) == RStrip(LStrip(s))
StartsWith(s, prefix) == Len(prefix) <= Len(s) /\ SubSeq(s, 1, Len(prefix)) = prefix

\* The dispatch without its last branch: an unknown command falls through to
\* the query.
command_else_query(line) ==
  LET query == Strip(line)
      cmd   == Lower(query)
  IN  IF query = <<>> THEN "empty"
      ELSE IF ~StartsWith(query, <<"/">>) THEN "query"
      ELSE IF cmd = <<"/", "q", "u", "i", "t">> \/ cmd = <<"/", "e", "x", "i", "t">> \/ cmd = <<"/", "q">> THEN "quit"
      ELSE IF cmd = <<"/", "h", "e", "l", "p">> THEN "help"
      ELSE IF cmd = <<"/", "v", "e", "r", "b", "o", "s", "e">> THEN "verbose"
      ELSE IF cmd = <<"/", "s", "t", "r", "e", "a", "m">> THEN "stream"
      ELSE IF cmd = <<"/", "c", "l", "e", "a", "r">> THEN "clear"
      ELSE IF cmd = <<"/", "h", "i", "s", "t", "o", "r", "y">> THEN "history"
      ELSE IF StartsWith(cmd, <<"/", "e", "x", "p", "o", "r", "t">>) THEN "export"
      ELSE "query"
\* The branch of the loop body that a line takes: the line is stripped; an
\* empty one is skipped; one starting with "/" is a command, compared in lower
\* case; anything else is a query.
command(line) ==
  LET query == Strip(line)
      cmd   == Lower(query)
  IN  IF query = <<>> THEN "empty"
      ELSE IF ~StartsWith(query, <<"/">>) THEN "query"
      ELSE IF cmd = <<"/", "q", "u", "i", "t">> \/ cmd = <<"/", "e", "x", "i", "t">> \/ cmd = <<"/", "q">> THEN "quit"
      ELSE IF cmd = <<"/", "h", "e", "l", "p">> THEN "help"
      ELSE IF cmd = <<"/", "v", "e", "r", "b", "o", "s", "e">> THEN "verbose"
      ELSE IF cmd = <<"/", "s", "t", "r", "e", "a", "m">> THEN "stream"
      ELSE IF cmd = <<"/", "c", "l", "e", "a", "r">> THEN "clear"
      ELSE IF cmd = <<"/", "h", "i", "s", "t", "o", "r", "y">> THEN "history"
      ELSE IF StartsWith(cmd, <<"/", "e", "x", "p", "o", "r", "t">>) THEN "export"
      ELSE "unknown"

\* Lines the user may type at the prompt, besides questions.
CommandLines ==
  { <<" ", " ">>,
    <<"/", "H", "E", "L", "P">>,
    <<"/", "v", "e", "r", "b", "o", "s", "e">>,
    <<"/", "s", "t", "r", "e", "a", "m">>,
    <<" ", "/", "C", "l", "e", "a", "r", " ">>,
    <<"/", "h", "i", "s", "t", "o", "r", "y">>,
    <<"/", "e", "x", "p", "o", "r", "t", " ", "a", ".", "j", "s", "o", "n">>,
    <<"/", "q", "u", "i", "t">>,
    <<"/", "e", "x", "i", "t">>,
    <<"/", "q">>,
    <<"/", "f", "o", "o">> }

\* The questions a user may ask, and every line the program may be given.
Questions == { QueryText(k) : k \in 1..9 }
Lines == CommandLines \cup Questions
\* The branch each of these lines takes.
Dispatch == [line \in Lines |-> command(line)]

\* ---------------------------------------------------------------- main.main
\* create_agent_graph() builds and compiles the graph.  It does not call
\* create_llm, so it does not read GOOGLE_API_KEY and raises nothing: main's
\* "except ValueError" branch is never entered.
Startup ==
  /\ pc = "start"
  /\ pc' = "prompt"
  /\ UNCHANGED <<cli, error, history, graph, locals, returned, queries,
                 hist_before, session_log, cleared_upto,
                 tool_io>>

\* run_single_query / run_streaming up to the call of agent.invoke /
\* agent.stream: the question is appended to the history, and the graph starts
\* at its entry point on a copy of the history.  run_interactive calls them with
\* the stripped line, when the line is no command; main and run_demo call them
\* with the question as it is.
BeginQuery(line) ==
  LET q == IF mode = "interactive" THEN Strip(line) ELSE line
  IN
  /\ pc = "prompt"
  /\ mode # "demo" => queries < MaxQueries
  /\ mode = "interactive" => Dispatch[line] = "query"
  /\ hist_before' = history
  /\ history' = add_human_message(history, q)
  /\ messages' = add_messages(<<>>, history')
  /\ node' = entry_point
  /\ outputs' = NoOutputs
  /\ iters' = 0
  /\ new_messages' = <<>>
  /\ final_content' = <<>>
  /\ queries' = queries + 1
  /\ session_log' = Append(session_log, HumanMessage(q))
  /\ pc' = "running"
  /\ UNCHANGED <<cli, error, returned, next_id, llm_input, cleared_upto, tool_io>>

\* ------------------------------------------------------------ agent.agent_node
\* create_llm() raises ValueError when GOOGLE_API_KEY is not set.  Nothing
\* catches it: it leaves agent.invoke / agent.stream, the query function and
\* the program.
AgentNoKey ==
  /\ pc = "running" /\ node = "agent"
  /\ ~api_key
  /\ pc' = "crashed"
  /\ error' = "ValueError"
  /\ UNCHANGED <<cli, history, graph, locals, returned, queries, hist_before,
                 session_log, cleared_upto,
                 tool_io>>

\* llm_with_tools.invoke(state["messages"]) raises (network, quota, malformed
\* response).  Nothing catches it either.
AgentModelFails ==
  /\ pc = "running" /\ node = "agent"
  /\ api_key
  /\ pc' = "crashed"
  /\ error' = "ModelInvocationError"
  /\ UNCHANGED <<cli, history, graph, locals, returned, queries, hist_before,
                 session_log, cleared_upto,
                 tool_io>>

\* run_streaming collecting only the AIMessages of a step.
StreamCollectAIOnly(new, out) == new \o SelectSeq(out, LAMBDA m : m.type = "ai")
\* run_streaming's loop body for one streamed step: the step's messages are
\* collected, and a non-empty AIMessage content becomes final_content.
StreamCollect(new, out) == new \o out
StreamFinalContent(current, msg) ==
  IF msg.type = "ai" /\ msg.content # <<>> THEN msg.content ELSE current

\* The model invocations of the conversation so far.
ModelInvocations == Len(SelectSeq(session_log, LAMBDA m : m.type = "ai"))

\* The model answers: agent_node returns {"messages": [response]}, the reducer
\* appends it, and the conditional edge should_continue picks the next node.
AgentResponds(response) ==
  /\ pc = "running" /\ node = "agent"
  /\ api_key
  /\ ModelInvocations < MaxIters
  /\ next_id + Len(response.tool_calls) - 1 <= MaxToolCalls
  /\ llm_input' = messages
  /\ messages' = add_messages(messages, <<response>>)
  /\ node' = should_continue(messages')
  /\ outputs' = NoOutputs
  /\ next_id' = next_id + Len(response.tool_calls)
  /\ iters' = iters + 1
  /\ session_log' = Append(session_log, response)
  /\ IF streaming
     THEN /\ new_messages' = StreamCollect(new_messages, <<response>>)
          /\ final_content' = StreamFinalContent(final_content, response)
     ELSE UNCHANGED locals
  /\ UNCHANGED <<cli, pc, error, history, returned, queries, hist_before, cleared_upto,
                 tool_io>>

\* ------------------------------------------------------------------ ToolNode
\* The tool calls of the turn being executed: those of the last message.
TurnCalls == messages[Len(messages)].tool_calls

\* One call of the turn finishes.  ToolNode runs the calls of a turn on a
\* thread pool, so they finish in any order.  What ToolNode does with an
\* exception of a tool function is not decided by this repository's code: here
\* it leaves the run, as the model's exceptions do.
ToolFinishes(i) ==
  /\ pc = "running" /\ node = "tools"
  /\ i \in (1..Len(TurnCalls)) \ DOMAIN outputs
  /\ LET r == invoke_tool(TurnCalls[i])
     IN  IF r.raised
         THEN /\ pc' = "crashed"
              /\ error' = "ToolExecutionError"
              /\ UNCHANGED outputs
         ELSE /\ outputs' = outputs @@ (i :> tool_message(TurnCalls[i], r.value))
              /\ UNCHANGED <<pc, error>>
  /\ UNCHANGED <<cli, history, messages, node, next_id, iters,
                 llm_input, locals, returned, queries, hist_before, session_log, cleared_upto,
                 tool_io>>

\* The ToolMessages of the turn, in the order of the calls.
ToolOutputs(calls, outs) == [i \in 1..Len(calls) |-> outs[i]]

\* The tools node handing over as soon as one call has finished, with the
\* ToolMessages it has.
ToolsJoinEarly ==
  /\ pc = "running" /\ node = "tools"
  /\ DOMAIN outputs # {}
  /\ LET got == [i \in 1..Len(TurnCalls) |->
                  IF i \in DOMAIN outputs THEN outputs[i] ELSE HumanMessage(<<>>)]
         out == SelectSeq(got, LAMBDA m : m.type = "tool")
     IN  /\ messages' = add_messages(messages, out)
         /\ session_log' = session_log \o out
         /\ IF streaming
            THEN new_messages' = StreamCollect(new_messages, out)
            ELSE UNCHANGED new_messages
  /\ node' = tools_edge
  /\ outputs' = NoOutputs
  /\ UNCHANGED <<cli, pc, error, history, next_id, iters, llm_input,
                 final_content, returned, queries, hist_before, cleared_upto,
                 tool_io>>

\* All calls have finished: ToolNode returns their ToolMessages in call order,
\* the reducer appends them, and the edge tools -> agent is taken.
ToolsJoin ==
  /\ pc = "running" /\ node = "tools"
  /\ DOMAIN outputs = 1..Len(TurnCalls)
  /\ LET out == ToolOutputs(TurnCalls, outputs)
     IN  /\ messages' = add_messages(messages, out)
         /\ session_log' = session_log \o out
         /\ IF streaming
            THEN new_messages' = StreamCollect(new_messages, out)
            ELSE UNCHANGED new_messages
  /\ node' = tools_edge
  /\ outputs' = NoOutputs
  /\ UNCHANGED <<cli, pc, error, history, next_id, iters, llm_input,
                 final_content, returned, queries, hist_before, cleared_upto,
                 tool_io>>

\* ------------------------------------------- the query functions, after the run
\* The slice starting one message late.
SingleNewMessagesLate(result, hist) == SubSeq(result, Len(hist) + 2, Len(result))
\* run_single_query: new_messages = result["messages"][len(history.messages):]
SingleNewMessages(result, hist) == SubSeq(result, Len(hist) + 1, Len(result))

\* The graph reached END: agent.invoke returns the final state (stream ends),
\* the new messages are added to the history and the answer is returned.  The
\* run's state and the function's locals end with the call.
FinishQuery ==
  /\ pc = "running" /\ node = "END"
  /\ IF streaming
     THEN /\ history' = add_ai_messages(history, new_messages)
          /\ returned' = final_content
     ELSE /\ history' = add_ai_messages(history, SingleNewMessages(messages, history))
          /\ returned' = messages[Len(messages)].content
  /\ node' = "none"
  /\ messages' = <<>>
  /\ llm_input' = <<>>
  /\ iters' = 0
  /\ new_messages' = <<>>
  /\ final_content' = <<>>
  /\ hist_before' = <<>>
  /\ pc' = CASE mode = "interactive" -> "prompt"
            [] mode = "demo" -> "demo_clear"
            [] OTHER -> "exited"
  /\ UNCHANGED <<cli, error, outputs, next_id, queries, session_log, cleared_upto,
                 tool_io>>

\* ---------------------------------------- main.run_interactive, the loop body
\* Each action is one pass of the loop body for the line that input() returned.
\* A line that is empty once stripped: "continue".
EmptyLine(line) ==
  /\ pc = "prompt" /\ mode = "interactive"
  /\ Dispatch[line] = "empty"
  /\ UNCHANGED vars

\* /help, /history and an unknown command: they print.
PrintingCommand(line) ==
  /\ pc = "prompt" /\ mode = "interactive"
  /\ Dispatch[line] \in {"help", "history", "unknown"}
  /\ UNCHANGED vars

\* /verbose flips the local flag verbose, which selects what the query
\* functions print and nothing else; what is printed is not part of the state.
ToggleVerbose(line) ==
  /\ pc = "prompt" /\ mode = "interactive"
  /\ Dispatch[line] = "verbose"
  /\ UNCHANGED vars

\* /stream
ToggleStream(line) ==
  /\ pc = "prompt" /\ mode = "interactive"
  /\ Dispatch[line] = "stream"
  /\ streaming' = ~streaming
  /\ UNCHANGED <<api_key, mode, pc, error, history, graph, locals, returned,
                 queries, hist_before, session_log, cleared_upto, tool_io>>

\* /clear
Clear(line) ==
  /\ pc = "prompt" /\ mode = "interactive"
  /\ Dispatch[line] = "clear"
  /\ history' = clear(history)
  /\ session_log' = <<>>
  /\ cleared_upto' = queries
  /\ UNCHANGED <<cli, pc, error, graph, locals, returned, queries, hist_before,
                 tool_io>>

\* /export [file]: export_to_file writes the history to a file, or the write
\* raises OSError, which nothing catches.
Export(line) ==
  /\ pc = "prompt" /\ mode = "interactive"
  /\ Dispatch[line] = "export"
  /\ \/ UNCHANGED <<pc, error>>
     \/ pc' = "crashed" /\ error' = "OSError"
  /\ UNCHANGED <<cli, history, graph, locals, returned, queries, hist_before,
                 session_log, cleared_upto, tool_io>>

\* /quit, /exit, /q
Quit(line) ==
  /\ pc = "prompt" /\ mode = "interactive"
  /\ Dispatch[line] = "quit"
  /\ pc' = "exited"
  /\ UNCHANGED <<cli, error, history, graph, locals, returned, queries,
                 hist_before, session_log, cleared_upto, tool_io>>

\* ------------------------------------------------------------- main.run_demo
\* The questions of the demo, in order.
demo_queries == [k \in 1..4 |-> QueryText(k)]

\* history.clear() after each demo query; the loop goes on to the next
\* question, or the demo is over.
DemoClear ==
  /\ pc = "demo_clear"
  /\ history' = clear(history)
  /\ session_log' = <<>>
  /\ cleared_upto' = queries
  /\ pc' = IF queries < Len(demo_queries) THEN "prompt" ELSE "exited"
  /\ UNCHANGED <<cli, error, graph, locals, returned, queries, hist_before,
                 tool_io>>

\* The user aborts (Ctrl-C): KeyboardInterrupt is raised where the program
\* stands, at the prompt or anywhere in a running query.  In run_interactive it
\* leaves the query function (whose locals are lost) and the except clause ends
\* the loop; a -q query has no handler and the program dies of it.  The history
\* is left as the exception found it.
InterruptSavingPartial ==
  /\ pc \in {"prompt", "running"}
  /\ error' = "KeyboardInterrupt"
  /\ pc' = IF mode = "interactive" THEN "exited" ELSE "crashed"
  /\ history' = add_ai_messages(history, SingleNewMessages(messages, history))
  /\ UNCHANGED <<cli, graph, locals, returned, queries, hist_before,
                 session_log, cleared_upto,
                 tool_io>>
Interrupt ==
  /\ pc \in {"prompt", "running"}
  /\ error' = "KeyboardInterrupt"
  /\ pc' = IF mode = "interactive" THEN "exited" ELSE "crashed"
  /\ UNCHANGED <<cli, history, graph, locals, returned, queries, hist_before,
                 session_log, cleared_upto,
                 tool_io>>

\* What the query functions may be called on: the next demo question, the
\* line typed at the prompt of run_interactive, or the question of -q.
NextQueries ==
  CASE mode = "demo" ->
         {demo_queries[k] : k \in {queries + 1} \cap DOMAIN demo_queries}
    [] mode = "interactive" -> CommandLines \cup {QueryText(queries + 1)}
    [] OTHER -> {QueryText(queries + 1)}

Next ==
  \/ Startup
  \/ \E q \in NextQueries : BeginQuery(q)
  \/ AgentNoKey
  \/ AgentModelFails
  \/ \E r \in Responses(next_id) : AgentResponds(r)
  \/ \E i \in 1..MaxCalls : ToolFinishes(i)
  \/ ToolsJoin
  \/ FinishQuery
  \/ \E line \in CommandLines : EmptyLine(line)
  \/ \E line \in CommandLines : PrintingCommand(line)
  \/ \E line \in CommandLines : ToggleVerbose(line)
  \/ \E line \in CommandLines : ToggleStream(line)
  \/ \E line \in CommandLines : Clear(line)
  \/ \E line \in CommandLines : Export(line)
  \/ \E line \in CommandLines : Quit(line)
  \/ DemoClear
  \/ Interrupt

Spec == Init /\ [][Next]_vars

\* ------------------------------------------- the tool functions, called directly
\* The longest expression typed out of ExprAlphabet.
MaxExprLen == 4
\* Characters of the arguments: digits, operators, brackets and a character
\* that calculator does not allow.
ExprAlphabet == {"0", "1", "2", "+", "*", "/", "(", ")", ";"}
Strings(n) == UNION {[1..k -> ExprAlphabet] : k \in 0..n}
\* Arguments written out: expressions with blanks, minus signs, decimal points
\* and other digits, and search queries.
ExampleInputs ==
  { <<"2", " ", "+", " ", "2">>,
    <<"1", "0", " ", "/", " ", "0">>,
    <<"2", "+", "2", ";", " ", "r", "m", " ", "-", "r", "f">>,
    <<"2", " ", "*", "*", " ", "3">>,
    <<"7", " ", "/", "/", " ", "2">>,
    <<"2", "5", " ", "*", " ", "4", " ", "+", " ", "1", "0">>,
    <<"7", " ", "-", " ", "2", " ", "*", " ", "3">>,
    <<"-", "(", "1", " ", "+", " ", "2", ")", " ", "*", " ", "3">>,
    <<"1", ".", "5", " ", "*", " ", "2">>,
    <<"(", " ", ")">>,
    <<"2", "\t", "+", " ", "2">>,
    <<"T", "e", "l", "l", " ", "m", "e", " ", "a", "b", "o", "u", "t", " ", "L", "a", "n", "g", "G", "r", "a", "p", "h">>,
    <<"x", "y", "z", "1", "2", "3">>,
    <<"R", "E", "A", "C", "T", " ", "A", "G", "E", "N", "T", " ", "v", "i", "a", " ", "G", "e", "m", "i", "n", "i", " ", "A", "P", "I">>,
    <<"g", "e", "m", "i", "n", "i", " ", "a", "p", "i", ",", " ", "t", "h", "e", "n", " ", "l", "a", "n", "g", "g", "r", "a", "p", "h">>,
    <<"r", "e", "a", "c", "t", " ", " ", "a", "g", "e", "n", "t">> }
ToolInputs == Strings(MaxExprLen) \cup ExampleInputs

ToolInit ==
  /\ api_key = FALSE /\ mode = "query" /\ streaming = FALSE /\ cleared_upto = 0
  /\ pc = "start" /\ error = ""
  /\ history \in {<<>>, <<HumanMessage(QueryText(1))>>}
  /\ messages = history /\ node = "none" /\ outputs = NoOutputs
  /\ new_messages = <<>> /\ final_content = <<>> /\ returned = <<>>
  /\ next_id = 1 /\ iters = 0 /\ queries = 0
  /\ hist_before = <<>> /\ llm_input = <<>> /\ session_log = <<>>
  /\ tool_input \in ToolInputs
  /\ tool_called = ""
  /\ tool_result = Return(<<>>)

\* calculator(tool_input) / search_web(tool_input), called while a conversation
\* may be held: the function gets the argument, and nothing of the session.
CallCalculator ==
  /\ tool_called = ""
  /\ tool_called' = "calculator"
  /\ tool_result' = calculator(tool_input)
  /\ UNCHANGED <<cli, cleared_upto, pc, error, history, graph, locals,
                 returned, queries, hist_before, session_log, tool_input>>
CallSearchWeb ==
  /\ tool_called = ""
  /\ tool_called' = "search_web"
  /\ tool_result' = search_web(tool_input)
  /\ UNCHANGED <<cli, cleared_upto, pc, error, history, graph, locals,
                 returned, queries, hist_before, session_log, tool_input>>

ToolNext ==
  \/ CallCalculator
  \/ CallSearchWeb

ToolSpec == ToolInit /\ [][ToolNext]_vars

\* ===================================================================== claims
Last(s) == s[Len(s)]
IsPrefix(s, t) == Len(s) <= Len(t) /\ SubSeq(t, 1, Len(s)) = s
IsToolTurn(m) == m.type = "ai" /\ m.tool_calls # <<>>
IsFinalAnswer(m) == m.type = "ai" /\ m.tool_calls = <<>>

\* C1: while a run exists, the graph is at END if and only if the latest message
\* is an Assistant message without tool calls, and an Assistant message with
\* tool calls always sends the graph to the tools node.
C1_DoneIffNoToolCalls ==
  node # "none" =>
    /\ node = "END" <=> IsFinalAnswer(Last(messages))
    /\ IsToolTurn(Last(messages)) => node = "tools"
\* A run that went through a tool turn and then reached END.
C1_Witness == node = "END" /\ iters = 2 /\ IsFinalAnswer(Last(messages))

\* C2: a run starts at the agent node (DECIDE); a Decision Step that answers
\* moves to tools (ACT) or END (DONE); the tools node is left only for the agent
\* node; END is left only by the run's return.  An exception (of the Decision
\* Step, or the user's abort) ends the run where it stands.
C2_Transitions ==
  [][ /\ (node = "none" /\ node' # "none") => node' = "agent"
      /\ node = "agent" =>
           \/ node' \in {"tools", "END"}
           \/ node' = "agent" /\ pc' # "running" /\ messages' = messages
      /\ node = "tools" =>
           \/ node' = "agent"
           \/ node' = "tools" /\ messages' = messages
      /\ node = "END" =>
           \/ node' = "none"
           \/ node' = "END" /\ pc' # "running" /\ messages' = messages
      /\ node' = "tools" => IsToolTurn(Last(messages'))
    ]_vars
\* The tools node handed back to the agent node.
C2_Witness == node = "agent" /\ iters = 1 /\ Last(messages).type = "tool"

\* C3: with a model that requests a tool call at every Decision Step, the run
\* ends with LoopLimitExceeded within LoopLimit iterations: it never makes a
\* further Decision Step and goes on.  (The graph has no such guard.)
\* The limit is one below the Decision Steps such a run can make here, at one
\* tool call each.
LoopLimit == MaxToolCalls - 1
\* Every Assistant message of the current run requests tools.
AlwaysTools ==
  \A p \in (Len(hist_before) + 2)..Len(messages) :
    messages[p].type = "ai" => IsToolTurn(messages[p])
C3_LoopGuard == (pc = "running" /\ AlwaysTools) => iters <= LoopLimit

\* C4: every Assistant turn with n >= 1 tool calls whose execution is over is
\* followed by exactly n ToolMessages, the i-th carrying the id of the i-th
\* call; in the history this holds of every turn.
TurnAnswered(msgs, p) ==
  LET calls == msgs[p].tool_calls
      n     == Len(calls)
  IN  /\ p + n <= Len(msgs)
      /\ \A i \in 1..n : /\ msgs[p + i].type = "tool"
                         /\ msgs[p + i].tool_call_id = calls[i].id
      /\ p + n < Len(msgs) => msgs[p + n + 1].type # "tool"
TurnsAnswered(msgs, upto) ==
  \A p \in 1..upto : IsToolTurn(msgs[p]) => TurnAnswered(msgs, p)
C4_OneResultPerCall ==
  /\ TurnsAnswered(messages, IF node = "tools" THEN Len(messages) - 1 ELSE Len(messages))
  /\ TurnsAnswered(history, Len(history))
\* A turn of two calls, answered, in the history.
C4_Witness ==
  \E p \in 1..Len(history) : Len(history[p].tool_calls) = 2 /\ TurnAnswered(history, p)

\* C5: the model is given the whole conversation held since the history was
\* last cleared (earlier turns, the new question, the messages of this cycle,
\* in the order they were produced), and the Decision Step appends exactly
\* one Assistant message to what it was given.
C5_FullStateOneMessage ==
  node \in {"tools", "END"} =>
    /\ llm_input = SubSeq(session_log, 1, Len(session_log) - 1)
    /\ messages = Append(llm_input, Last(session_log))
    /\ Last(messages).type = "ai"
\* A Decision Step of a second query, after a first query that used a tool.
C5_Witness ==
  /\ node = "END" /\ queries = 2
  /\ \E p \in 1..Len(llm_input) : llm_input[p].type = "tool"
  /\ llm_input[1] = HumanMessage(QueryText(1))
\* C5 as claimed: moreover the model is given the messages of all earlier
\* turns of the session, so the question of every query asked so far.
C5_AllTurnsOfSession ==
  /\ C5_FullStateOneMessage
  /\ node \in {"tools", "END"} =>
       \A k \in 1..queries :
         \E p \in 1..Len(llm_input) : llm_input[p] = HumanMessage(QueryText(k))

ToolResultLinked(msgs, p) ==
  \E q \in 1..(p - 1) :
    /\ msgs[q].type = "ai"
    /\ \A j \in (q + 1)..(p - 1) : msgs[j].type = "tool"
    /\ \E i \in 1..Len(msgs[q].tool_calls) :
         msgs[q].tool_calls[i].id = msgs[p].tool_call_id
ToolResultsLinked(msgs) ==
  \A p \in 1..Len(msgs) : msgs[p].type = "tool" => ToolResultLinked(msgs, p)
C7_ToolResultsLinked == ToolResultsLinked(history) /\ ToolResultsLinked(messages)
\* A history, after two queries, holding tool results of the second.
C7_Witness ==
  /\ pc = "prompt" /\ queries = 2 /\ Len(history) >= 3
  /\ Last(history).type = "ai"
  /\ \E p \in 3..Len(history) : history[p].type = "tool" /\ ToolResultLinked(history, p)

\* C8: when the model invocation fails, the exception ends the query and the
\* history is what it was before the query, in the same order, followed only by
\* the question: no Assistant or Tool message of the failed cycle is in it.
C8_FailureKeepsHistory ==
  (pc = "crashed" /\ error = "ModelInvocationError") =>
    /\ IsPrefix(hist_before, history)
    /\ \A p \in (Len(hist_before) + 1)..Len(history) : history[p].type = "human"
\* The model fails at a later Decision Step of a second query, in streaming
\* mode, after tool results were produced.
C8_Witness ==
  /\ pc = "crashed" /\ error = "ModelInvocationError"
  /\ streaming /\ iters >= 1 /\ hist_before # <<>>
  /\ Last(messages).type = "tool"

\* C9: a failing tool call does not end the run with an exception; once the
\* turn's execution is over every call of the turn has its ToolMessage, and the
\* ToolMessage of calculator("10 / 0") is the division-by-zero error text.
DivByZeroCall(c) ==
  c.name = "calculator" /\ c.args = <<"1", "0", " ", "/", " ", "0">>
C9_ToolFailureAbsorbed ==
  /\ error # "ToolExecutionError"
  /\ \A p \in 1..Len(messages) :
       LET calls == messages[p].tool_calls
       IN  (/\ \E i \in 1..Len(calls) : DivByZeroCall(calls[i])
            /\ ~(p = Len(messages) /\ node = "tools"))
           => /\ TurnAnswered(messages, p)
              /\ \A i \in 1..Len(calls) :
                   DivByZeroCall(calls[i]) =>
                     messages[p + i].content = <<"Error: Division by zero">>
\* Back at the agent node after a turn of a failing call and a search.
C9_Witness ==
  /\ node = "agent" /\ pc = "running" /\ Len(messages) >= 4
  /\ LET p == Len(messages) - 2
     IN  /\ Len(messages[p].tool_calls) = 2
         /\ DivByZeroCall(messages[p].tool_calls[1])
         /\ messages[p].tool_calls[2].name = "search_web"
         /\ messages[p + 1].content = <<"Error: Division by zero">>
         /\ messages[p + 2].content[1] = "Search results for '"

\* C10: without GOOGLE_API_KEY the program stops at startup: it accepts no
\* query, and no run is started.  (create_agent_graph does not read the key.)
C10_KeyCheckedAtStartup == ~api_key => (queries = 0 /\ pc \in {"start", "exited"})

\* C13: calculator raises nothing and returns a string for every argument; an
\* argument with a character other than a digit, + - * / ( ) . or whitespace
\* gets the invalid-characters text, and an expression whose evaluation divides
\* by zero gets the division-by-zero text.
ClaimedCharacters ==
  {Digits[i] : i \in 1..10} \cup {"+", "-", "*", "/", "(", ")", ".", " ", "\t"}
OnlyClaimedCharacters(s) == \A i \in 1..Len(s) : s[i] \in ClaimedCharacters
C13_CalculatorTotal ==
  tool_called = "calculator" =>
    /\ ~tool_result.raised
    /\ Len(tool_result.value) >= 1
    /\ ~OnlyClaimedCharacters(tool_input) => tool_result.value = <<InvalidCharsText>>
    /\ (/\ \A i \in 1..Len(tool_input) : tool_input[i] \in allowed_chars
        /\ PyEval(tool_input).k = "ZeroDivisionError")
       => tool_result.value = <<"Error: Division by zero">>
\* calculator("10 / 0") was called.
C13_Witness ==
  /\ tool_called = "calculator"
  /\ tool_input = <<"1", "0", " ", "/", " ", "0">>
  /\ tool_result = Return(<<"Error: Division by zero">>)

\* C14: an argument of allowed characters is read as an arithmetic expression
\* over numbers, + - * / and brackets: a well-formed one gets a Result (or the
\* division-by-zero text), with the usual precedence, and any other argument
\* gets an error text, never a Result.
\* Well-formed: only numbers, + - * / and brackets, no empty brackets, no
\* bracket directly after an operand, and the operators and operands in place.
WellFormedArithmetic(s) ==
  LET toks == Tokens(s, 1)
  IN  /\ \A i \in 1..Len(toks) : toks[i].t \in {"num", "+", "-", "*", "/", "(", ")"}
      /\ \A i \in 1..(Len(toks) - 1) :
           toks[i + 1].t = "(" => toks[i].t \notin {"num", ")"}
      /\ \A i \in 1..(Len(toks) - 1) : ~(toks[i].t = "(" /\ toks[i + 1].t = ")")
      /\ PyEval(s).k # "SyntaxError"
IsResult(v) == Len(v) >= 1 /\ v[1] = "Result: "
C14_ArithmeticGrammar ==
  (tool_called = "calculator" /\ OnlyClaimedCharacters(tool_input)) =>
    /\ IF WellFormedArithmetic(tool_input)
       THEN IsResult(tool_result.value)
              \/ tool_result.value = <<"Error: Division by zero">>
       ELSE ~tool_result.raised /\ ~IsResult(tool_result.value)
    /\ tool_input = <<"7", " ", "-", " ", "2", " ", "*", " ", "3">>
         => tool_result.value[Len(tool_result.value)] = "1"

\* C15: search_web answers with the canned text of a keyword exactly when that
\* keyword occurs in the query, letter case aside, and no keyword earlier in
\* the mapping does; with the fallback text when no keyword occurs; and the
\* call leaves the conversation as it was.
Keyword(k) == mock_results[k][1]
\* Keyword k occurs in q at some position, letter case aside.
Occurs(q, k) ==
  \E i \in 1..(Len(q) - Len(Keyword(k)) + 1) :
    \A j \in 1..Len(Keyword(k)) : LowerChar(q[i + j - 1]) = Keyword(k)[j]
Answer(text) == <<"Search results for '">> \o tool_input \o <<"': ">> \o <<text>>
C15_SearchWeb ==
  [][ tool_called' = "search_web" =>
        /\ ~tool_result'.raised
        /\ \A k \in 1..3 :
             tool_result'.value = Answer(mock_results[k][2])
               <=> (Occurs(tool_input, k) /\ \A j \in 1..(k - 1) : ~Occurs(tool_input, j))
        /\ tool_result'.value = Answer(NoResultsText)
             <=> \A k \in 1..3 : ~Occurs(tool_input, k)
        /\ history' = history /\ messages' = messages
    ]_vars
\* A query in capitals naming the second and the third keyword.
C15_Witness ==
  /\ tool_called = "search_web"
  /\ history # <<>>
  /\ Occurs(tool_input, 2) /\ Occurs(tool_input, 3) /\ ~Contains(tool_input, Keyword(2))
  /\ tool_result.value = Answer(mock_results[2][2])

\* C11: the model is invoked only on messages in which every requested tool
\* call has its ToolMessage, in whatever order the calls of a turn finish.  This
\* holds of the messages the graph holds at the agent node and of the messages
\* the model was last given.
C11_JoinBeforeDecide ==
  /\ (pc = "running" /\ node = "agent") =>
       \A p \in 1..Len(messages) :
         \A i \in 1..Len(messages[p].tool_calls) :
           \E r \in (p + 1)..Len(messages) :
             /\ messages[r].type = "tool"
             /\ messages[r].tool_call_id = messages[p].tool_calls[i].id
  /\ \A p \in 1..Len(llm_input) :
       \A i \in 1..Len(llm_input[p].tool_calls) :
         \E r \in (p + 1)..Len(llm_input) :
           /\ llm_input[r].type = "tool"
           /\ llm_input[r].tool_call_id = llm_input[p].tool_calls[i].id
\* The model was invoked after a turn of two tool calls.
C11_Witness ==
  /\ iters = 2 /\ node \in {"tools", "END"}
  /\ \E p \in 1..Len(llm_input) : Len(llm_input[p].tool_calls) = 2

\* C12: after the user's abort, at the prompt, during a model invocation or
\* during a tool invocation, the program has stopped and the history holds
\* whole turns only: every Assistant message with tool calls in it has its
\* ToolMessages, and of an interrupted query it holds the question and nothing
\* else.
C12_InterruptKeepsHistory ==
  error = "KeyboardInterrupt" =>
    /\ pc \in {"exited", "crashed"}
    /\ \A p \in 1..Len(history) : IsToolTurn(history[p]) => TurnAnswered(history, p)
    /\ node # "none" => history = Append(hist_before, HumanMessage(QueryText(queries)))
\* An abort while the tools node runs, in a second streamed query.
C12_Witness ==
  /\ error = "KeyboardInterrupt" /\ node = "tools" /\ DOMAIN outputs # {}
  /\ streaming /\ new_messages # <<>> /\ hist_before # <<>>

\* C16: whichever of run_single_query and run_streaming ran the last query, it
\* left the history holding the messages of the conversation in order, and it
\* returned the content of the final Assistant message, empty or not.
C16_StreamingLikeSingle ==
  (pc \in {"prompt", "exited"} /\ error = "" /\ session_log # <<>>) =>
    /\ history = session_log
    /\ returned = Last(session_log).content

\* ------------------------------------------------------------------- C17
\* One pass of run_interactive's loop body on a typed line.
LoopBody(line) ==
  /\ pc = "prompt" /\ mode = "interactive"
  /\ \/ BeginQuery(line) \/ EmptyLine(line) \/ PrintingCommand(line)
     \/ ToggleVerbose(line) \/ ToggleStream(line) \/ Clear(line)
     \/ Export(line) \/ Quit(line)
\* The lines as the claim sorts them, after strip() and lower().
QuitCommands ==
  { <<"/", "q", "u", "i", "t">>, <<"/", "e", "x", "i", "t">>, <<"/", "q">> }
ClearCommand == <<"/", "c", "l", "e", "a", "r">>
IsCommandLine(line) == StartsWith(Strip(line), <<"/">>)
IsQuitLine(line) == Lower(Strip(line)) \in QuitCommands
IsClearLine(line) == Lower(Strip(line)) = ClearCommand
\* Empty input, /help, /verbose, /stream, /history, /export and any unknown
\* /command: every line that is empty or a command other than /clear and the
\* three quitting ones.
IsFrameLine(line) ==
  \/ Strip(line) = <<>>
  \/ IsCommandLine(line) /\ ~IsClearLine(line) /\ ~IsQuitLine(line)

\* C17: a pass of the interactive loop on an empty line, on /help, /verbose,
\* /stream, /history, /export or on an unknown /command leaves the history as
\* it was and starts no run of the agent; a pass on /quit, /exit or /q ends the
\* loop with the history as it was; and a pass that changes the history is one
\* on /clear or on a line that is no command.
C17_CommandsFrame ==
  [][ \A line \in CommandLines \cup {QueryText(queries + 1)} :
        LoopBody(line) =>
          /\ IsFrameLine(line) =>
                /\ history' = history
                /\ node' = "none" /\ pc' # "running"
                /\ messages' = messages /\ llm_input' = llm_input
                /\ queries' = queries
          /\ IsQuitLine(line) => pc' = "exited" /\ history' = history
          /\ history' # history =>
                IsClearLine(line) \/ (Strip(line) # <<>> /\ ~IsCommandLine(line))
    ]_vars
\* The loop has ended on a quitting command, after a query that called a tool:
\* the history still holds the query's messages.
C17_Witness ==
  /\ mode = "interactive" /\ pc = "exited" /\ error = ""
  /\ queries = 1 /\ Len(history) >= 4

\* ------------------------------------------------------------------- C18
\* C18: when no query was asked since the history was last cleared, the history
\* is empty; the first Decision Step of the query asked next is given the new
\* Human message and nothing else; whatever a later Decision Step is given
\* begins with that Human message and holds the question of no query asked
\* before the clear; and each query of the demo runs on a history that held
\* only its own question when the run began.
C18_ClearForgets ==
  /\ queries = cleared_upto => history = <<>>
  /\ (iters = 1 /\ queries = cleared_upto + 1) =>
       llm_input = <<HumanMessage(QueryText(queries))>>
  /\ llm_input # <<>> =>
       /\ llm_input[1] = HumanMessage(QueryText(cleared_upto + 1))
       /\ \A p \in 1..Len(llm_input) : \A k \in 1..cleared_upto :
            llm_input[p] # HumanMessage(QueryText(k))
  /\ (mode = "demo" /\ pc = "running") =>
       /\ queries = cleared_upto + 1
       /\ history = <<HumanMessage(demo_queries[queries])>>
       /\ messages[1] = HumanMessage(demo_queries[queries])
\* The first Decision Step of a second query, asked after /clear had emptied a
\* history that held the first query's messages.
C18_Witness ==
  /\ mode = "interactive" /\ pc = "running"
  /\ cleared_upto = 1 /\ queries = 2 /\ iters = 1
  /\ node \in {"tools", "END"}

====
